---- MODULE Spec2Model ----
(***************************************************************************)
(* Model of the trivial-graph crate: the Graph container (graph.rs), its   *)
(* text codec (read_from / Display), the breadth-first and depth-first     *)
(* visitors, the shared visit_all algorithm and the topological order.     *)
(***************************************************************************)
EXTENDS Integers, Sequences, FiniteSets, TLC

(***************************************************************************)
(* Bounds of the model.                                                    *)
(***************************************************************************)
\* vertex identifiers handed to the operations are 1..MaxVertex
MaxVertex == 2
\* the mutation sequences keep at most MaxEdges directed edges in the graph
MaxEdges == 3
\* the graphs a visitor is bound to have the vertices 1..k for a k <= MaxNode;
\* MaxNode + 1 is the id that is never a vertex
MaxNode == 3
\* ... and at most MaxArcs directed edges
MaxArcs == 2
\* traversal calls (visit, visit_all, Graph::bfs) made on one visitor
MaxCalls == 2
\* lines of a text handed to read_from
MaxLines == 4

Ids == 1..MaxVertex
NodeIds == 1..(MaxNode + 1)

\* Texts are sequences of one-character strings.
\* Vertex values are Strings (main.rs uses Graph<String>).
Values == { <<"x">>, <<"x", " ", "y">> }

VARIABLES
    vertices,   \* Graph.vertices : HashMap<usize, GraphVertex<T>>
    edges,      \* Graph.edges    : HashMap<usize, HashSet<usize>>
    result,     \* the last operation called on the graph and what it returned
    kind,       \* the visitor type bound to the graph, "none" before ::new
    visited,    \* BfsVisitor.visited / DfsVisitor.visited
    log,        \* ids the callback f received since visited was last cleared
    pc,         \* where the running traversal call stands
    call,       \* the traversal call in progress, or the last one
    queue,      \* bfs_impl: vertex_queue
    stack,      \* dfs_impl / TopologicalSort::dfs: the recursion, innermost last
    starts,     \* visit_all: vertices (ordered policies)
    si,         \* visit_all: elements of vertices already taken by the for loop
    pool,       \* elements of an unordered set the running for loop has not taken
    ts_visited, \* TopologicalSort.visited
    ts_order,   \* TopologicalSort.order
    ncalls,     \* traversal calls made so far
    value_type, \* the T of Graph<T>: "String" (main.rs) or "i32" (doc tests)
    input,      \* the lines of the text handed to Graph::read_from
    parsed      \* what read_from returned, status "none" before the call

gvars == <<vertices, edges, result>>

tvars == <<kind, visited, log, pc, call, queue, stack, starts, si, pool,
           ts_visited, ts_order, ncalls>>

cvars == <<value_type, input, parsed>>

vars == <<vertices, edges, result, kind, visited, log, pc, call, queue, stack,
          starts, si, pool, ts_visited, ts_order, ncalls, value_type, input,
          parsed>>

(***************************************************************************)
(* Option<T> and HashMap helpers.                                          *)
(***************************************************************************)
None == [some |-> FALSE]
Some(x) == [some |-> TRUE, val |-> x]

EmptyMap == [k \in {} |-> {}]
MapInsert(m, k, v) == [x \in (DOMAIN m) \cup {k} |-> IF x = k THEN v ELSE m[x]]
MapRemove(m, k) == [x \in (DOMAIN m) \ {k} |-> m[x]]
MapGet(m, k) == IF k \in DOMAIN m THEN Some(m[k]) ELSE None

\* GraphVertex::new
GraphVertex(id, value) == [id |-> id, value |-> value]

\* Graph::get_vertex
get_vertex(vs, vertex_id) == MapGet(vs, vertex_id)

\* get_neighbours as it would be if it returned the adjacency entry itself
get_neighbours_entry_only(vs, es, vertex) == MapGet(es, vertex)

\* Graph::get_neighbours
get_neighbours(vs, es, vertex) ==
    IF vertex \in DOMAIN vs
    THEN Some(IF vertex \in DOMAIN es THEN es[vertex] ELSE {})
    ELSE None

\* Graph::get_vertices_ids
get_vertices_ids(vs) == DOMAIN vs

\* number of (from, to) pairs stored in the adjacency map
EdgeCount(es) == Cardinality({ p \in (DOMAIN es) \X Ids : p[2] \in es[p[1]] })

NoResult == [op |-> "new", status |-> "ok", vertex |-> 0]
Running == result.status # "panic"

(***************************************************************************)
(* Graph::new                                                              *)
(***************************************************************************)
\* logStart: callbacks recorded before the call; wasVisited: its start vertex
\* was marked visited; dirty: some vertex was marked visited; nth: the traversal
\* calls since visited was last cleared, this one included; onlyVisits: all of
\* them were single-start visits
NoCall == [op |-> "none", start |-> 0, policy |-> "", logStart |-> 0,
           wasVisited |-> FALSE, dirty |-> FALSE, nth |-> 0, onlyVisits |-> TRUE]

\* read_from was not called; the graph holds Strings, as in main.rs
NoInput == <<>>
NoParse == [status |-> "none"]

NoReader ==
    /\ value_type = "String"
    /\ input = NoInput
    /\ parsed = NoParse

\* no visitor is bound to the graph
NoVisitor ==
    /\ kind = "none"
    /\ visited = {}
    /\ log = <<>>
    /\ pc = "idle"
    /\ call = NoCall
    /\ queue = <<>>
    /\ stack = <<>>
    /\ starts = <<>>
    /\ si = 0
    /\ pool = {}
    /\ ts_visited = {}
    /\ ts_order = <<>>
    /\ ncalls = 0

Init ==
    /\ vertices = EmptyMap
    /\ edges = EmptyMap
    /\ result = NoResult
    /\ NoVisitor
    /\ NoReader

(***************************************************************************)
(* Graph::add_vertex                                                       *)
(***************************************************************************)
AddVertex(vertex, value) ==
    /\ Running
    /\ vertices' = MapInsert(vertices, vertex, GraphVertex(vertex, value))
    /\ edges' = edges
    /\ result' = [op |-> "add_vertex", status |-> "ok", vertex |-> 0]
    /\ UNCHANGED <<tvars, cvars>>

(***************************************************************************)
(* Graph::remove_vertex.  The loop walks the removed out-set in the        *)
(* HashSet's enumeration order and unwraps edges.get_mut(neighbour): a     *)
(* neighbour without an adjacency entry panics, after the entries walked   *)
(* before it were already scrubbed and before vertices.remove runs.        *)
(***************************************************************************)
Scrub(es, done, vertex) ==
    [x \in DOMAIN es |-> IF x \in done THEN es[x] \ {vertex} ELSE es[x]]

\* remove_vertex as it would be if it left the adjacency entry of the vertex
RemoveVertexKeepsEntry(vertex) ==
    /\ Running
    /\ edges' = edges
    /\ vertices' = MapRemove(vertices, vertex)
    /\ result' = [op |-> "remove_vertex", status |-> "ok", vertex |-> 0]
    /\ UNCHANGED <<tvars, cvars>>

RemoveVertex(vertex) ==
    /\ Running
    /\ LET neighbours == MapGet(edges, vertex)
           es1 == MapRemove(edges, vertex)
       IN IF neighbours.some
          THEN LET missing == { n \in neighbours.val : n \notin DOMAIN es1 }
               IN IF missing = {}
                  THEN /\ edges' = Scrub(es1, neighbours.val, vertex)
                       /\ vertices' = MapRemove(vertices, vertex)
                       /\ result' = [op |-> "remove_vertex", status |-> "ok", vertex |-> 0]
                  ELSE /\ \E done \in SUBSET (neighbours.val \ missing) :
                              edges' = Scrub(es1, done, vertex)
                       /\ vertices' = vertices
                       /\ result' = [op |-> "remove_vertex", status |-> "panic", vertex |-> 0]
          ELSE /\ edges' = es1
               /\ vertices' = MapRemove(vertices, vertex)
               /\ result' = [op |-> "remove_vertex", status |-> "ok", vertex |-> 0]
    /\ UNCHANGED <<tvars, cvars>>

(***************************************************************************)
(* Graph::add_edge                                                         *)
(***************************************************************************)
\* add_edge as it would be without the check of vertex_to
add_edge_unchecked_to(vs, es, vertex_from, vertex_to) ==
    IF vertex_from \notin DOMAIN vs
    THEN [edges |-> es, status |-> "err", vertex |-> vertex_from]
    ELSE [edges |-> MapInsert(es, vertex_from,
                        (IF vertex_from \in DOMAIN es THEN es[vertex_from] ELSE {})
                            \cup {vertex_to}),
          status |-> "ok", vertex |-> 0]

add_edge(vs, es, vertex_from, vertex_to) ==
    IF vertex_from \notin DOMAIN vs
    THEN [edges |-> es, status |-> "err", vertex |-> vertex_from]
    ELSE IF vertex_to \notin DOMAIN vs
    THEN [edges |-> es, status |-> "err", vertex |-> vertex_to]
    ELSE [edges |-> MapInsert(es, vertex_from,
                        (IF vertex_from \in DOMAIN es THEN es[vertex_from] ELSE {})
                            \cup {vertex_to}),
          status |-> "ok", vertex |-> 0]

AddEdge(vertex_from, vertex_to) ==
    /\ Running
    /\ LET r == add_edge(vertices, edges, vertex_from, vertex_to)
       IN /\ EdgeCount(r.edges) <= MaxEdges
          /\ edges' = r.edges
          /\ vertices' = vertices
          /\ result' = [op |-> "add_edge", status |-> r.status, vertex |-> r.vertex]
    /\ UNCHANGED <<tvars, cvars>>

(***************************************************************************)
(* Graph::remove_edge                                                      *)
(***************************************************************************)
RemoveEdge(vertex_from, vertex_to) ==
    /\ Running
    /\ edges' = IF vertex_from \in DOMAIN edges
                THEN LET from_neighbours == edges[vertex_from] \ {vertex_to}
                     IN IF from_neighbours = {}
                        THEN MapRemove(edges, vertex_from)
                        ELSE MapInsert(edges, vertex_from, from_neighbours)
                ELSE edges
    /\ vertices' = vertices
    /\ result' = [op |-> "remove_edge", status |-> "ok", vertex |-> 0]
    /\ UNCHANGED <<tvars, cvars>>

Next ==
    \/ \E v \in Ids, value \in Values : AddVertex(v, value)
    \/ \E v \in Ids : RemoveVertex(v)
    \/ \E a \in Ids, b \in Ids : AddEdge(a, b)
    \/ \E a \in Ids, b \in Ids : RemoveEdge(a, b)

Spec == Init /\ [][Next]_vars

(***************************************************************************)
(* Text codec.  A text is a sequence of one-character strings, lines end   *)
(* with "\n".                                                              *)
(***************************************************************************)
Digits == <<"0", "1", "2", "3", "4", "5", "6", "7", "8", "9">>
IsDigit(c) == \E i \in 1..10 : Digits[i] = c
DigitVal(c) == (CHOOSE i \in 1..10 : Digits[i] = c) - 1
IsWhitespace(c) == c \in {" ", "\n", "\t", "\r"}

\* usize as Display prints it: decimal, no sign, no padding
RECURSIVE to_string(_)
to_string(n) ==
    IF n < 10 THEN <<Digits[n + 1]>>
    ELSE to_string(n \div 10) \o <<Digits[(n % 10) + 1]>>

\* usize::from_str: an optional "+" and then at least one digit, only digits
RECURSIVE DecimalValue(_)
DecimalValue(s) ==
    IF s = <<>> THEN 0
    ELSE 10 * DecimalValue(SubSeq(s, 1, Len(s) - 1)) + DigitVal(s[Len(s)])

parse_usize(s) ==
    LET body == IF s # <<>> /\ s[1] = "+" THEN Tail(s) ELSE s
    IN IF body = <<>> \/ \E i \in 1..Len(body) : ~IsDigit(body[i])
       THEN None
       ELSE Some(DecimalValue(body))

\* i32::from_str: an optional "+" or "-" and then at least one digit, only
\* digits (the values of the bounded texts are far from the 32-bit limits)
parse_i32(s) ==
    LET signed == s # <<>> /\ s[1] \in {"+", "-"}
        body == IF signed THEN Tail(s) ELSE s
    IN IF body = <<>> \/ \E i \in 1..Len(body) : ~IsDigit(body[i])
       THEN None
       ELSE Some(IF s[1] = "-" THEN 0 - DecimalValue(body) ELSE DecimalValue(body))

\* <i32 as Display>::fmt
i32_to_string(n) == IF n < 0 THEN <<"-">> \o to_string(0 - n) ELSE to_string(n)

\* <T as FromStr>::from_str and <T as Display>::fmt for the graph's T; a String
\* is taken as it stands
value_from_str(s) == IF value_type = "i32" THEN parse_i32(s) ELSE Some(s)
value_to_string(value) ==
    IF value_type = "i32" THEN i32_to_string(value) ELSE value

\* str::trim
RECURSIVE trim_start(_)
trim_start(s) ==
    IF s # <<>> /\ IsWhitespace(s[1]) THEN trim_start(Tail(s)) ELSE s

RECURSIVE trim_end(_)
trim_end(s) ==
    IF s # <<>> /\ IsWhitespace(s[Len(s)])
    THEN trim_end(SubSeq(s, 1, Len(s) - 1))
    ELSE s

trim(s) == trim_end(trim_start(s))

\* str::splitn(n, ' '): at most n parts, the last one is the remainder
RECURSIVE splitn(_, _)
splitn(n, s) ==
    IF n <= 1 \/ ~(\E i \in 1..Len(s) : s[i] = " ")
    THEN <<s>>
    ELSE LET i == CHOOSE k \in 1..Len(s) :
                    s[k] = " " /\ \A j \in 1..(k - 1) : s[j] # " "
         IN <<SubSeq(s, 1, i - 1)>> \o splitn(n - 1, SubSeq(s, i + 1, Len(s)))

\* BufRead::read_line from position pos: the line with its "\n", or what is
\* left before EOF (empty at EOF), and the position after it
RECURSIVE LineEnd(_, _)
LineEnd(text, pos) ==
    IF pos > Len(text) THEN Len(text)
    ELSE IF text[pos] = "\n" THEN pos
    ELSE LineEnd(text, pos + 1)

read_line(text, pos) ==
    LET e == LineEnd(text, pos)
    IN [buf |-> SubSeq(text, pos, e), next |-> e + 1]

ParseErr(error) == [status |-> "err", kind |-> error]

\* the second loop as it would be if the result of add_edge were dropped
RECURSIVE read_edges_unchecked(_, _, _, _)
read_edges_unchecked(text, pos, vs, es) ==
    LET rl == read_line(text, pos)
        line == trim(rl.buf)
    IN IF line = <<>>
       THEN [status |-> "ok", vertices |-> vs, edges |-> es]
       ELSE LET parts == splitn(3, line)
            IN IF Len(parts) < 2 THEN ParseErr("DataError")
               ELSE LET vertex_from_id == parse_usize(parts[1])
                        vertex_to_id == parse_usize(parts[2])
                    IN IF ~vertex_from_id.some THEN ParseErr("VertexParseError")
                       ELSE IF ~vertex_to_id.some THEN ParseErr("VertexParseError")
                       ELSE LET r == add_edge(vs, es, vertex_from_id.val, vertex_to_id.val)
                            IN read_edges_unchecked(text, rl.next, vs, r.edges)

\* Graph::read_from, second loop (edge lines)
RECURSIVE read_edges(_, _, _, _)
read_edges(text, pos, vs, es) ==
    LET rl == read_line(text, pos)
        line == trim(rl.buf)
    IN IF line = <<>>
       THEN [status |-> "ok", vertices |-> vs, edges |-> es]
       ELSE LET parts == splitn(3, line)
            IN IF Len(parts) < 2 THEN ParseErr("DataError")
               ELSE LET vertex_from_id == parse_usize(parts[1])
                        vertex_to_id == parse_usize(parts[2])
                    IN IF ~vertex_from_id.some THEN ParseErr("VertexParseError")
                       ELSE IF ~vertex_to_id.some THEN ParseErr("VertexParseError")
                       ELSE LET r == add_edge(vs, es, vertex_from_id.val, vertex_to_id.val)
                            IN IF r.status = "err" THEN ParseErr("VertexNotExists")
                               ELSE read_edges(text, rl.next, vs, r.edges)

\* Graph::read_from, first loop (vertex lines), then the second
RECURSIVE read_vertices(_, _, _)
read_vertices(text, pos, vs) ==
    LET rl == read_line(text, pos)
        line == trim(rl.buf)
    IN IF line = <<"#">> \/ line = <<>>
       THEN read_edges(text, rl.next, vs, EmptyMap)
       ELSE LET parts == splitn(2, line)
            IN IF Len(parts) < 2 THEN ParseErr("DataError")
               ELSE LET vertex_id == parse_usize(parts[1])
                        value == value_from_str(parts[2])
                    IN IF ~vertex_id.some THEN ParseErr("VertexParseError")
                       ELSE IF ~value.some THEN ParseErr("ValueParseError")
                       ELSE read_vertices(text, rl.next,
                                MapInsert(vs, vertex_id.val,
                                          GraphVertex(vertex_id.val, value.val)))

read_from(text) == read_vertices(text, 1, EmptyMap)

\* the enumeration orders a HashMap / HashSet over S can produce
Perms(S) ==
    { f \in [1..Cardinality(S) -> S] : \A i, j \in 1..Cardinality(S) : f[i] = f[j] => i = j }

RECURSIVE Concat(_)
Concat(ss) == IF ss = <<>> THEN <<>> ELSE Head(ss) \o Concat(Tail(ss))

\* impl Display for Graph, with the enumeration orders made explicit:
\* vorder over vertices.values(), korder over the keys of edges, norder[k]
\* over the set edges[k]
fmt(vs, es, vorder, korder, norder) ==
    Concat([i \in 1..Len(vorder) |->
                to_string(vs[vorder[i]].id) \o <<" ">>
                    \o value_to_string(vs[vorder[i]].value) \o <<"\n">>])
    \o <<"#", "\n">>
    \o Concat([i \in 1..Len(korder) |->
                Concat([j \in 1..Len(norder[korder[i]]) |->
                    to_string(korder[i]) \o <<" ">>
                        \o to_string(norder[korder[i]][j]) \o <<"\n">>])])

\* every text Display may print for the graph
NeighbourOrders(es) ==
    { norder \in [DOMAIN es -> UNION { Perms(es[k]) : k \in DOMAIN es }] :
        \A k \in DOMAIN es : norder[k] \in Perms(es[k]) }

FormatOutputs(vs, es) ==
    { fmt(vs, es, vorder, korder, norder) :
        vorder \in Perms(DOMAIN vs),
        korder \in Perms(DOMAIN es),
        norder \in NeighbourOrders(es) }

(***************************************************************************)
(* Graph::read_from applied to bounded texts.  A text is given by its      *)
(* lines, a line by its tokens; the reader gets the lines joined by single *)
(* spaces and ended by "\n", the last one with or without the "\n".        *)
(***************************************************************************)
ValueTypes == {"String", "i32"}

\* the lines the texts are made of: as a vertex line / as an edge line
LineSet ==
    { <<<<"1">>, <<"1">>>>,             \* vertex 1, value 1 / edge 1 -> 1
      <<<<"2">>, <<"2">>>>,             \* vertex 2, value 2 / edge 2 -> 2
      <<<<"2">>, <<"k", "e", "k">>>>,   \* "2 kek" of the doc tests
      <<<<"1">>, <<"2">>, <<"z">>>>,    \* value "2 z" / edge 1 -> 2 and a rest
      <<<<"1">>, <<"1", "0">>>>,        \* value 10 / edge 1 -> 10
      <<<<"w">>, <<"k">>>>,             \* neither token is a number
      <<<<"1">>>>,                      \* a single token
      <<<<"#">>>>,                      \* the separator
      <<>> }                            \* a blank line

RECURSIVE TextsUpTo(_)
TextsUpTo(n) ==
    IF n = 0 THEN { <<>> }
    ELSE LET shorter == TextsUpTo(n - 1)
         IN shorter \cup { Append(t, l) : t \in shorter, l \in LineSet }

Inputs == TextsUpTo(MaxLines)

RECURSIVE Join(_)
Join(tokens) ==
    IF tokens = <<>> THEN <<>>
    ELSE IF Len(tokens) = 1 THEN tokens[1]
    ELSE tokens[1] \o <<" ">> \o Join(Tail(tokens))

\* the characters of the text; final_newline tells whether the last line
\* carries its "\n"
Render(lines, final_newline) ==
    LET text == Concat([i \in 1..Len(lines) |-> Join(lines[i]) \o <<"\n">>])
    IN IF final_newline \/ text = <<>> THEN text
       ELSE SubSeq(text, 1, Len(text) - 1)

InitRead ==
    /\ vertices = EmptyMap
    /\ edges = EmptyMap
    /\ result = NoResult
    /\ NoVisitor
    /\ value_type \in ValueTypes
    /\ input \in Inputs
    /\ parsed = NoParse

\* let graph = Graph::<T>::read_from(text.as_bytes())
ReadFrom ==
    /\ parsed.status = "none"
    /\ \E final_newline \in BOOLEAN :
        LET r == read_from(Render(input, final_newline))
        IN /\ parsed' = r
           /\ vertices' = IF r.status = "ok" THEN r.vertices ELSE vertices
           /\ edges' = IF r.status = "ok" THEN r.edges ELSE edges
           /\ result' = [op |-> "read_from", status |-> r.status, vertex |-> 0]
    /\ UNCHANGED <<tvars, value_type, input>>

NextRead == ReadFrom

SpecRead == InitRead /\ [][NextRead]_vars

(***************************************************************************)
(* Visitors.  A visitor borrows the graph for its whole life, so the graph *)
(* does not change while one exists.  The bound graph is any graph that    *)
(* add_vertex / add_edge build on the vertices 1..k with at most MaxArcs   *)
(* edges (any other vertex-id set is an order-preserving renaming of one). *)
(***************************************************************************)
BfsKind == "visitors::BfsVisitor"
DfsKind == "visitors::DfsVisitor"
CrateBfsKind == "bfs_visitor::BfsVisitor"
Kinds == {BfsKind, DfsKind, CrateBfsKind}
Policies == {"Undefined", "NumbersAscending", "TopologicalSort"}

ArcSets(k) == { E \in SUBSET ((1..k) \X (1..k)) : Cardinality(E) <= MaxArcs }

BuiltVertices(k) == [v \in 1..k |-> GraphVertex(v, <<"x">>)]
BuiltEdges(E) ==
    [v \in { e[1] : e \in E } |-> { e[2] : e \in { d \in E : d[1] = v } }]

InitVisit ==
    /\ \E k \in 0..MaxNode :
        \E E \in ArcSets(k) :
            /\ vertices = BuiltVertices(k)
            /\ edges = BuiltEdges(E)
    /\ result = NoResult
    /\ NoVisitor
    /\ NoReader

\* the callback step as it would be if an absent vertex were skipped
call_f_skip_absent(vs, lg, v) ==
    LET vertex == get_vertex(vs, v)
    IN IF vertex.some
       THEN [panic |-> FALSE, log |-> Append(lg, vertex.val.id)]
       ELSE [panic |-> FALSE, log |-> lg]

\* f(self.graph.get_vertex(v).unwrap()): the callback records the id it is
\* handed; the unwrap panics when v is not a vertex
call_f(vs, lg, v) ==
    LET vertex == get_vertex(vs, v)
    IN IF vertex.some
       THEN [panic |-> FALSE, log |-> Append(lg, vertex.val.id)]
       ELSE [panic |-> TRUE, log |-> lg]

\* `if let Some(neighbours) = self.graph.get_neighbours(v) { for nx in neighbours`
Successors(v) ==
    LET neighbours == get_neighbours(vertices, edges, v)
    IN IF neighbours.some THEN neighbours.val ELSE {}

Frame(v) == [v |-> v, rest |-> Successors(v)]
Pop(st) == SubSeq(st, 1, Len(st) - 1)
Top(st) == st[Len(st)]

\* visitors/bfs_visitor.rs, bfs_impl before the while loop
bfs_impl_start(vis, v) ==
    IF v \notin vis
    THEN [queue |-> <<v>>, visited |-> vis \cup {v}]
    ELSE [queue |-> <<>>, visited |-> vis]

\* bfs_visitor.rs (the module graph.rs imports), bfs_impl before the while loop
crate_bfs_impl_start(vis, v) ==
    IF v \notin vis
    THEN [queue |-> <<v>>, visited |-> vis]
    ELSE [queue |-> <<>>, visited |-> vis]

\* clear as it would be if it left the visited set alone
clear_keep(vis) == vis

\* GraphVisitor::clear

clear(vis) == {}

\* where a finished single-start visit returns to
ReturnTo(op) == IF op = "visit_all" THEN "loop" ELSE "idle"

\* GraphVisitor::visit(vertex, f) up to the first loop iteration / recursion
StartVisit(k, op, v, vis, lg) ==
    IF k = DfsKind
    THEN /\ queue' = <<>>
         /\ IF v \in vis
            THEN /\ visited' = vis
                 /\ log' = lg
                 /\ stack' = <<>>
                 /\ pc' = ReturnTo(op)
            ELSE LET c == call_f(vertices, lg, v)
                 IN /\ visited' = vis \cup {v}
                    /\ log' = c.log
                    /\ stack' = IF c.panic THEN <<>> ELSE <<Frame(v)>>
                    /\ pc' = IF c.panic THEN "panic" ELSE "dfs"
    ELSE LET r == IF k = BfsKind
                  THEN bfs_impl_start(vis, v)
                  ELSE crate_bfs_impl_start(vis, v)
         IN /\ visited' = r.visited
            /\ queue' = r.queue
            /\ log' = lg
            /\ stack' = <<>>
            /\ pc' = IF r.queue = <<>> THEN ReturnTo(op) ELSE "bfs"

\* BfsVisitor::new / DfsVisitor::new
NewVisitor(k) ==
    /\ kind = "none"
    /\ kind' = k
    /\ visited' = {}
    /\ UNCHANGED <<gvars, cvars, log, pc, call, queue, stack, starts, si, pool,
                   ts_visited, ts_order, ncalls>>

\* visitor.visit(vertex, f)
Visit(vertex) ==
    /\ kind # "none"
    /\ pc = "idle"
    /\ ncalls < MaxCalls
    /\ ncalls' = ncalls + 1
    /\ call' = [op |-> "visit", start |-> vertex, policy |-> "",
                logStart |-> Len(log), wasVisited |-> vertex \in visited,
                dirty |-> visited # {}, nth |-> call.nth + 1,
                onlyVisits |-> call.onlyVisits]
    /\ StartVisit(kind, "visit", vertex, visited, log)
    /\ UNCHANGED <<gvars, cvars, kind, starts, si, pool, ts_visited, ts_order>>

\* Graph::bfs(start_vertex, f): BfsVisitor::new(&self).visit(start_vertex, f)
\* with the BfsVisitor of crate::bfs_visitor
GraphBfs(start_vertex) ==
    /\ kind = "none"
    /\ pc = "idle"
    /\ ncalls < MaxCalls
    /\ ncalls' = ncalls + 1
    /\ kind' = CrateBfsKind
    /\ call' = [op |-> "Graph::bfs", start |-> start_vertex, policy |-> "",
                logStart |-> 0, wasVisited |-> FALSE, dirty |-> FALSE,
                nth |-> 1, onlyVisits |-> TRUE]
    /\ StartVisit(CrateBfsKind, "Graph::bfs", start_vertex, {}, <<>>)
    /\ UNCHANGED <<gvars, cvars, starts, si, pool, ts_visited, ts_order>>

\* visitor.clear(); the recording of the callbacks starts anew with it
Clear ==
    /\ kind # "none"
    /\ pc = "idle"
    /\ visited' = clear(visited)
    /\ log' = <<>>
    /\ call' = [NoCall EXCEPT !.op = "clear"]
    /\ UNCHANGED <<gvars, cvars, kind, pc, queue, stack, starts, si, pool,
                   ts_visited, ts_order, ncalls>>

\* bfs_impl: one iteration of `while let Some(v) = vertex_queue.pop_front()`;
\* the for loop enqueues the unvisited neighbours in the set's enumeration order
BfsStep ==
    /\ pc = "bfs"
    /\ queue # <<>>
    /\ LET v == Head(queue)
           c == call_f(vertices, log, v)
       IN IF c.panic
          THEN /\ pc' = "panic"
               /\ queue' = Tail(queue)
               /\ UNCHANGED <<visited, log>>
          ELSE LET new == Successors(v) \ visited
               IN /\ log' = c.log
                  /\ visited' = visited \cup new
                  /\ \E order \in Perms(new) : queue' = Tail(queue) \o order
                  /\ pc' = IF queue' = <<>> THEN ReturnTo(call.op) ELSE "bfs"
    /\ UNCHANGED <<gvars, cvars, kind, call, stack, starts, si, pool,
                   ts_visited, ts_order, ncalls>>

\* dfs_impl: the innermost call takes the next element of its for loop and
\* calls dfs_impl on it (a visited one returns at once), or returns
DfsStep ==
    /\ pc = "dfs"
    /\ stack # <<>>
    /\ LET top == Top(stack)
           cand == top.rest \ visited
       IN IF cand = {}
          THEN /\ stack' = Pop(stack)
               /\ pc' = IF stack' = <<>> THEN ReturnTo(call.op) ELSE "dfs"
               /\ UNCHANGED <<visited, log>>
          ELSE \E nx \in cand :
                  LET c == call_f(vertices, log, nx)
                  IN /\ visited' = visited \cup {nx}
                     /\ log' = c.log
                     /\ stack' = IF c.panic THEN stack
                                 ELSE Append([stack EXCEPT ![Len(stack)].rest = @ \ {nx}],
                                             Frame(nx))
                     /\ pc' = IF c.panic THEN "panic" ELSE "dfs"
    /\ UNCHANGED <<gvars, cvars, kind, call, queue, starts, si, pool,
                   ts_visited, ts_order, ncalls>>

RECURSIVE SortAscending(_)
SortAscending(S) ==
    IF S = {} THEN <<>>
    ELSE LET m == CHOOSE x \in S : \A y \in S : x <= y
         IN <<m>> \o SortAscending(S \ {m})

Reverse(seq) == [i \in 1..Len(seq) |-> seq[Len(seq) + 1 - i]]

\* create_order as it would be without order.reverse()
create_order_unreversed(order) == order

\* TopologicalSort::create_order after its for loop

create_order_finish(order) == Reverse(order)

\* GraphVisitor::visit_all(visit_order, f) up to `let vertices = ...`; the
\* topological order is computed by the TopoStep steps
VisitAll(visit_order) ==
    /\ kind # "none"
    /\ pc = "idle"
    /\ ncalls < MaxCalls
    /\ ncalls' = ncalls + 1
    /\ call' = [op |-> "visit_all", start |-> 0, policy |-> visit_order,
                logStart |-> 0, wasVisited |-> FALSE, dirty |-> visited # {},
                nth |-> 1, onlyVisits |-> FALSE]
    /\ visited' = clear(visited)
    /\ log' = <<>>
    /\ si' = 0
    /\ ts_visited' = {}
    /\ ts_order' = <<>>
    /\ IF visit_order = "Undefined"
       THEN /\ pool' = get_vertices_ids(vertices)
            /\ starts' = <<>>
            /\ pc' = "loop"
       ELSE IF visit_order = "NumbersAscending"
       THEN /\ pool' = {}
            /\ starts' = SortAscending(get_vertices_ids(vertices))
            /\ pc' = "loop"
       ELSE /\ pool' = get_vertices_ids(vertices)
            /\ starts' = <<>>
            /\ pc' = "topo"
    /\ UNCHANGED <<gvars, cvars, kind, queue, stack>>

\* the steps as they would be if dfs pushed an already visited vertex again
\* instead of returning at once
TopoStepPushVisited ==
    /\ pc = "topo"
    /\ IF stack = <<>>
       THEN IF pool = {}
            THEN /\ starts' = create_order_finish(ts_order)
                 /\ pc' = "loop"
                 /\ UNCHANGED <<pool, stack, ts_visited, ts_order>>
            ELSE /\ \E v \in pool :
                     /\ pool' = pool \ {v}
                     /\ IF v \in ts_visited
                        THEN /\ ts_order' = Append(ts_order, v)
                             /\ UNCHANGED <<stack, ts_visited>>
                        ELSE /\ ts_visited' = ts_visited \cup {v}
                             /\ stack' = <<Frame(v)>>
                             /\ UNCHANGED ts_order
                 /\ UNCHANGED <<starts, pc>>
       ELSE LET top == Top(stack)
            IN IF top.rest = {}
               THEN /\ stack' = Pop(stack)
                    /\ ts_order' = Append(ts_order, top.v)
                    /\ UNCHANGED <<starts, pool, pc, ts_visited>>
               ELSE /\ \E nx \in top.rest :
                        IF nx \in ts_visited
                        THEN /\ stack' = [stack EXCEPT ![Len(stack)].rest = @ \ {nx}]
                             /\ ts_order' = Append(ts_order, nx)
                             /\ UNCHANGED ts_visited
                        ELSE /\ ts_visited' = ts_visited \cup {nx}
                             /\ stack' = Append([stack EXCEPT ![Len(stack)].rest = @ \ {nx}],
                                                Frame(nx))
                             /\ UNCHANGED ts_order
                    /\ UNCHANGED <<starts, pool, pc>>
    /\ UNCHANGED <<gvars, cvars, kind, visited, log, call, queue, si, ncalls>>

\* TopologicalSort: create_order's for loop calls dfs on the next vertex id,
\* or the innermost dfs takes the next neighbour, or returns pushing its vertex
TopoStep ==
    /\ pc = "topo"
    /\ IF stack = <<>>
       THEN LET cand == pool \ ts_visited
            IN IF cand = {}
               THEN /\ starts' = create_order_finish(ts_order)
                    /\ pool' = {}
                    /\ pc' = "loop"
                    /\ UNCHANGED <<stack, ts_visited, ts_order>>
               ELSE /\ \E v \in cand :
                        /\ pool' = pool \ {v}
                        /\ ts_visited' = ts_visited \cup {v}
                        /\ stack' = <<Frame(v)>>
                    /\ UNCHANGED <<starts, pc, ts_order>>
       ELSE LET top == Top(stack)
                cand == top.rest \ ts_visited
            IN IF cand = {}
               THEN /\ stack' = Pop(stack)
                    /\ ts_order' = Append(ts_order, top.v)
                    /\ UNCHANGED <<starts, pool, pc, ts_visited>>
               ELSE /\ \E nx \in cand :
                        /\ ts_visited' = ts_visited \cup {nx}
                        /\ stack' = Append([stack EXCEPT ![Len(stack)].rest = @ \ {nx}],
                                           Frame(nx))
                    /\ UNCHANGED <<starts, pool, pc, ts_order>>
    /\ UNCHANGED <<gvars, cvars, kind, visited, log, call, queue, si, ncalls>>

\* visit_all: `for v in vertices { self.visit(v, &mut f) }`, one iteration up
\* to the start of the visit, or the end of the loop
NextStart ==
    /\ pc = "loop"
    /\ IF call.policy = "Undefined"
       THEN IF pool = {}
            THEN /\ pc' = "idle"
                 /\ UNCHANGED <<visited, log, queue, stack, pool, si>>
            ELSE /\ \E v \in pool :
                    /\ pool' = pool \ {v}
                    /\ StartVisit(kind, "visit_all", v, visited, log)
                 /\ UNCHANGED si
       ELSE IF si >= Len(starts)
            THEN /\ pc' = "idle"
                 /\ UNCHANGED <<visited, log, queue, stack, pool, si>>
            ELSE /\ si' = si + 1
                 /\ StartVisit(kind, "visit_all", starts[si + 1], visited, log)
                 /\ UNCHANGED pool
    /\ UNCHANGED <<gvars, cvars, kind, call, starts, ts_visited, ts_order,
                   ncalls>>

NextVisit ==
    \/ \E k \in Kinds : NewVisitor(k)
    \/ \E v \in NodeIds : Visit(v)
    \/ \E v \in NodeIds : GraphBfs(v)
    \/ Clear
    \/ \E o \in Policies : VisitAll(o)
    \/ BfsStep
    \/ DfsStep
    \/ TopoStep
    \/ NextStart

SpecVisit == InitVisit /\ [][NextVisit]_vars

\* TopologicalSort::new(graph).create_order() alone, as visit_all calls it with
\* VisitOrder::TopologicalSort.  The code is single-threaded and synchronous:
\* a call that has a next step takes it.
NextTopo ==
    \/ \E k \in Kinds : NewVisitor(k)
    \/ VisitAll("TopologicalSort")
    \/ TopoStep

SpecTopo == InitVisit /\ [][NextTopo]_vars /\ WF_vars(TopoStep)

(***************************************************************************)
(* Properties of the graph mutations (specification Spec).                 *)
(***************************************************************************)

\* C1: after a completed remove_vertex(v), v is in the adjacency set of no
\* still-existing vertex (no edge targeting v is left dangling).
C1_NoDanglingAfterRemove ==
    [][\A v \in Ids :
        (RemoveVertex(v) /\ result'.status = "ok")
            => \A u \in (DOMAIN vertices') \cap (DOMAIN edges') : v \notin edges'[u]]_vars

\* C2: remove_vertex(id) completes without failure; an absent id leaves the
\* graph unchanged, a present id is removed and every other vertex and its
\* value is kept.
C2_RemoveVertexCompletes ==
    [][\A id \in Ids :
        RemoveVertex(id)
            => /\ result'.status = "ok"
               /\ id \notin DOMAIN vertices => (vertices' = vertices /\ edges' = edges)
               /\ id \in DOMAIN vertices =>
                    /\ id \notin DOMAIN vertices'
                    /\ DOMAIN vertices' = (DOMAIN vertices) \ {id}
                    /\ \A u \in DOMAIN vertices' : vertices'[u] = vertices[u]]_vars

\* C3: add_edge(from, to) returns the vertex-does-not-exist error exactly when
\* from or to is not a vertex, naming a missing endpoint and changing nothing;
\* otherwise it succeeds with to in edges[from], and a second identical call
\* leaves the graph as the first call left it.
C3_AddEdgeContract ==
    [][\A from \in Ids, to \in Ids :
        AddEdge(from, to)
            => /\ (result'.status = "err")
                    <=> (from \notin DOMAIN vertices \/ to \notin DOMAIN vertices)
               /\ result'.status = "err" =>
                    /\ result'.vertex \in {from, to} \ DOMAIN vertices
                    /\ result'.vertex = IF from \notin DOMAIN vertices THEN from ELSE to
                    /\ vertices' = vertices
                    /\ edges' = edges
               /\ result'.status # "err" =>
                    /\ result'.status = "ok"
                    /\ vertices' = vertices
                    /\ from \in DOMAIN edges'
                    /\ to \in edges'[from]
                    /\ LET again == add_edge(vertices', edges', from, to)
                       IN again.status = "ok" /\ again.edges = edges']_vars

\* C3 witness: an add_edge call was refused for a missing endpoint.
C3_Witness ==
    /\ result.op = "add_edge"
    /\ result.status = "err"
    /\ result.vertex \in Ids \ DOMAIN vertices
    /\ DOMAIN vertices # {}

\* C4: get_neighbours(v) is absent exactly when v is not a vertex (and then
\* get_vertex(v) is absent too) and is a set exactly when v is a vertex, the
\* empty set when v has no out-edges; when remove_edge removes the last
\* out-edge of v and retracts the entry, get_neighbours(v) is the empty set.
C4_State ==
    \A v \in Ids :
        LET n == get_neighbours(vertices, edges, v)
        IN /\ n.some <=> v \in DOMAIN vertices
           /\ ~n.some => ~get_vertex(vertices, v).some
           /\ n.some => get_vertex(vertices, v).some
           /\ n.some => n.val = { w \in Ids : v \in DOMAIN edges /\ w \in edges[v] }

C4_NeighboursAbsentOrSet ==
    /\ C4_State
    /\ [][/\ C4_State'
          /\ \A v \in Ids, w \in Ids :
                (RemoveEdge(v, w) /\ v \in DOMAIN vertices
                    /\ v \in DOMAIN edges /\ edges[v] = {w})
                    => /\ v \notin DOMAIN edges'
                       /\ get_neighbours(vertices', edges', v) = Some({})]_vars

\* C4 witness: remove_edge has just run and a vertex without an adjacency
\* entry reports the empty set.
C4_Witness ==
    /\ result.op = "remove_edge"
    /\ \E v \in DOMAIN vertices :
            /\ v \notin DOMAIN edges
            /\ get_neighbours(vertices, edges, v) = Some({})

\* C10: round trip: for the graph reached by the mutation calls, parsing any
\* text Display prints for it succeeds and yields the same vertex-id set, the
\* same value for every vertex and the same adjacency set for every vertex.
SameGraph(r) ==
    /\ r.status = "ok"
    /\ DOMAIN r.vertices = DOMAIN vertices
    /\ \A v \in DOMAIN vertices : r.vertices[v] = vertices[v]
    /\ \A v \in Ids :
            get_neighbours(r.vertices, r.edges, v) = get_neighbours(vertices, edges, v)

C10_RoundTrip ==
    Running => \A text \in FormatOutputs(vertices, edges) : SameGraph(read_from(text))

(***************************************************************************)
(* Properties of read_from (specification SpecRead).  The lines of the     *)
(* input are classified from their tokens, as the format describes them.   *)
(***************************************************************************)
IsIntegerToken(token) ==
    token # <<>> /\ \A i \in 1..Len(token) : IsDigit(token[i])

\* the value text of a vertex line parses as the graph's value type
ValueTextParses(line) ==
    value_type = "String" \/ (Len(line) = 2 /\ IsIntegerToken(line[2]))

IsBlank(line) == line = <<>>
IsSeparator(line) == line = <<<<"#">>>>

\* the line that ends the vertex section and the line that ends the edge
\* section (one past the last line when the text ends first)
VertexSectionEnd ==
    LET ends == { i \in 1..Len(input) : IsBlank(input[i]) \/ IsSeparator(input[i]) }
    IN IF ends = {} THEN Len(input) + 1
       ELSE CHOOSE i \in ends : \A j \in ends : i <= j

EdgeSectionEnd ==
    LET ends == { i \in (VertexSectionEnd + 1)..Len(input) : IsBlank(input[i]) }
    IN IF ends = {} THEN Len(input) + 1
       ELSE CHOOSE i \in ends : \A j \in ends : i <= j

VertexLines == 1..(VertexSectionEnd - 1)
EdgeLines == (VertexSectionEnd + 1)..(EdgeSectionEnd - 1)

\* the ids of the vertex section, as written
VertexIdTokens == { input[i][1] : i \in VertexLines }

\* the failure kind the line calls for, "none" when it is well formed
Offence(i) ==
    LET line == input[i]
    IN IF i \in VertexLines
       THEN IF Len(line) < 2 THEN "DataError"
            ELSE IF ~IsIntegerToken(line[1]) THEN "VertexParseError"
            ELSE IF ~ValueTextParses(line) THEN "ValueParseError"
            ELSE "none"
       ELSE IF Len(line) < 2 THEN "DataError"
            ELSE IF ~IsIntegerToken(line[1]) \/ ~IsIntegerToken(line[2])
                 THEN "VertexParseError"
            ELSE IF line[1] \notin VertexIdTokens \/ line[2] \notin VertexIdTokens
                 THEN "VertexNotExists"
            ELSE "none"

OffendingLines == { i \in VertexLines \cup EdgeLines : Offence(i) # "none" }
FirstOffending == CHOOSE i \in OffendingLines : \A j \in OffendingLines : i <= j

\* C11: read_from fails exactly when a line before the end of the edge section
\* is offending, with the failure kind of the first offending line (DataError,
\* VertexParseError, ValueParseError, VertexNotExists as the line calls for);
\* otherwise it returns the graph with the vertices and edges of the lines.
C11_ReadFromFailsOnFirstOffence ==
    parsed.status # "none" =>
        IF OffendingLines = {}
        THEN /\ parsed.status = "ok"
             /\ { to_string(v) : v \in DOMAIN parsed.vertices } = VertexIdTokens
             /\ \A v \in DOMAIN parsed.vertices : parsed.vertices[v].id = v
             /\ { <<to_string(e[1]), to_string(e[2])>> :
                    e \in { d \in (DOMAIN parsed.edges) \X (DOMAIN parsed.vertices) :
                                d[2] \in parsed.edges[d[1]] } }
                  = { <<input[i][1], input[i][2]>> : i \in EdgeLines }
             /\ \A k \in DOMAIN parsed.edges : parsed.edges[k] \subseteq DOMAIN parsed.vertices
        ELSE parsed = ParseErr(Offence(FirstOffending))

\* C11 witness: read_from refused a text for a dangling edge reference on its
\* last line, after a well-formed vertex section and a well-formed edge line.
C11_Witness ==
    /\ parsed = ParseErr("VertexNotExists")
    /\ Len(input) = MaxLines
    /\ FirstOffending = MaxLines
    /\ VertexLines # {}
    /\ Cardinality(EdgeLines) >= 2

(***************************************************************************)
(* Properties of the visitors (specification SpecVisit).                   *)
(***************************************************************************)
NoDup(seq) == \A i, j \in 1..Len(seq) : seq[i] = seq[j] => i = j
Count(seq, v) == Cardinality({ i \in 1..Len(seq) : seq[i] = v })
CallLog == SubSeq(log, call.logStart + 1, Len(log))

RECURSIVE Closure(_)
Closure(S) ==
    LET T == S \cup UNION { Successors(v) : v \in S }
    IN IF T = S THEN S ELSE Closure(T)

\* the vertices reachable from v by one edge or more
ReachPlus(v) == Closure(Successors(v))
IsAcyclic == \A v \in DOMAIN vertices : v \notin ReachPlus(v)
Position(seq, v) == CHOOSE i \in 1..Len(seq) : seq[i] = v

SingleStart == call.op \in {"visit", "Graph::bfs"}

\* C5: a visit_all of a visitors::BfsVisitor or visitors::DfsVisitor, under any
\* order policy and whatever was marked visited before, never fails, never
\* hands a vertex to the callback twice and, once returned, has handed every
\* vertex of the graph to it exactly once (|V| callbacks).
C5_VisitAllExactlyOnce ==
    (call.op = "visit_all" /\ kind \in {BfsKind, DfsKind})
        => /\ pc # "panic"
           /\ NoDup(log)
           /\ \A i \in 1..Len(log) : log[i] \in DOMAIN vertices
           /\ pc = "idle" =>
                /\ Len(log) = Cardinality(DOMAIN vertices)
                /\ \A v \in DOMAIN vertices : Count(log, v) = 1

\* C5 witness: a visit_all on a visitor that had vertices marked visited has
\* returned, on a graph with a cycle.
C5_Witness ==
    /\ call.op = "visit_all"
    /\ kind \in {BfsKind, DfsKind}
    /\ call.dirty
    /\ pc = "idle"
    /\ Len(log) = MaxNode
    /\ ~IsAcyclic

\* C6: on an acyclic graph the sequence create_order returns contains every
\* vertex exactly once and places u before w for every edge u -> w.
C6_TopologicalOrder ==
    (call.op = "visit_all" /\ call.policy = "TopologicalSort" /\ pc # "topo"
        /\ IsAcyclic)
        => /\ Len(starts) = Cardinality(DOMAIN vertices)
           /\ \A v \in DOMAIN vertices : Count(starts, v) = 1
           /\ \A u \in DOMAIN edges : \A w \in edges[u] :
                Position(starts, u) < Position(starts, w)

\* C6 witness: create_order has returned the order of an acyclic graph with
\* MaxNode vertices and at least two edges.
C6_Witness ==
    /\ call.op = "visit_all"
    /\ call.policy = "TopologicalSort"
    /\ pc = "loop"
    /\ si = 0
    /\ IsAcyclic
    /\ Len(starts) = MaxNode
    /\ \E u \in DOMAIN edges : \E w \in DOMAIN edges : u # w

\* C7: over single-start visit calls with no clear() in between, the callback
\* is invoked at most once per vertex, and a visit whose start vertex is
\* already marked visited invokes it zero times.
C7_AtMostOncePerVertex ==
    (SingleStart /\ call.onlyVisits)
        => /\ NoDup(log)
           /\ call.wasVisited => (Len(log) = call.logStart /\ pc = "idle")

\* C8: a single-start breadth-first visit on a fresh or cleared visitor, once
\* returned, has invoked the callback exactly once for the start vertex and
\* for every vertex reachable from it, and for no other.
C8_BfsFromFreshExactlyOnce ==
    (SingleStart /\ kind \in {BfsKind, CrateBfsKind} /\ call.nth = 1
        /\ call.start \in DOMAIN vertices /\ pc = "idle")
        => \A v \in NodeIds :
                Count(CallLog, v) =
                    IF v \in {call.start} \cup ReachPlus(call.start) THEN 1 ELSE 0

\* C9: a single-start visit whose start vertex is not a vertex of the graph
\* and is not marked visited never returns normally: it fails at the lookup,
\* and the callback is not invoked.
C9_AbsentStartFails ==
    (SingleStart /\ call.start \notin DOMAIN vertices /\ ~call.wasVisited)
        => /\ pc \in {"bfs", "panic"}
           /\ pc = "bfs" => queue = <<call.start>>
           /\ Len(log) = call.logStart

\* C9 witness: a visit from an id that is no vertex of the graph has
\* panicked, on a visitor that had made a visit with callbacks before.
C9_Witness ==
    /\ call.op = "visit"
    /\ call.start \notin DOMAIN vertices
    /\ ~call.wasVisited
    /\ pc = "panic"
    /\ call.nth = 2
    /\ Len(log) >= 1

\* the length of a shortest path from s to v, -1 when there is none
RECURSIVE DistanceVia(_, _, _, _)
DistanceVia(frontier, seen, d, v) ==
    IF v \in frontier THEN d
    ELSE IF frontier = {} THEN 0 - 1
    ELSE LET next == UNION { Successors(u) : u \in frontier } \ seen
         IN DistanceVia(next, seen \cup next, d + 1, v)

Distance(s, v) == DistanceVia({s}, {s}, 0, v)

\* C12: a single-start breadth-first traversal from s on a fresh visitor
\* (Graph::bfs or BfsVisitor::visit) hands s to the callback first and then
\* the vertices in non-decreasing order of their shortest-path distance from
\* s, whatever the enumeration order of the adjacency sets.
C12_BfsDistanceOrder ==
    (SingleStart /\ kind \in {BfsKind, CrateBfsKind} /\ call.nth = 1
        /\ call.start \in DOMAIN vertices)
        => /\ CallLog # <<>> => CallLog[1] = call.start
           /\ \A i, j \in 1..Len(CallLog) :
                i < j => /\ Distance(call.start, CallLog[i]) >= 0
                         /\ Distance(call.start, CallLog[i])
                                <= Distance(call.start, CallLog[j])

\* C13: on a graph with a cycle (a self-loop included) the topological-order
\* policy terminates, and the sequence it returns holds every vertex of the
\* graph exactly once.
C13_TopoOnCycleTerminatesWithPermutation ==
    /\ []((call.op = "visit_all" /\ call.policy = "TopologicalSort"
            /\ pc # "topo" /\ ~IsAcyclic)
            => /\ Len(starts) = Cardinality(DOMAIN vertices)
               /\ \A v \in DOMAIN vertices : Count(starts, v) = 1)
    /\ []((pc = "topo" /\ ~IsAcyclic) => <>(pc = "loop"))

\* C13 witness: create_order has returned on a graph of MaxNode vertices with
\* a self-loop.
C13_Witness ==
    /\ call.op = "visit_all"
    /\ call.policy = "TopologicalSort"
    /\ pc = "loop"
    /\ Len(starts) = MaxNode
    /\ \E v \in DOMAIN vertices : v \in Successors(v)
    /\ \E v \in DOMAIN vertices : Successors(v) \ {v} # {}

(***************************************************************************)
(* The keys of the adjacency map (specification Spec).                     *)
(***************************************************************************)

\* C14: in every graph state the add_vertex, remove_vertex, add_edge and
\* remove_edge calls reach, every key of the edges mapping is the id of a
\* vertex of the graph.
C14_EdgeKeysAreVertices ==
    \A k \in DOMAIN edges : k \in DOMAIN vertices

\* C14 witness: a remove_vertex call has returned and left a graph with fewer
\* than MaxVertex vertices that still has an adjacency entry.
C14_Witness ==
    /\ result.op = "remove_vertex"
    /\ result.status = "ok"
    /\ DOMAIN edges # {}
    /\ Cardinality(DOMAIN vertices) < MaxVertex

====
